---- MODULE Spec2Model ----
(***************************************************************************)
(* Model of the plan-generation request pipeline of the Fitness Coach app  *)
(* (src/src/services/aiService.js): retryWithBackoff, the upstream chat    *)
(* completion call it retries, and generateFitnessPlan with its bundled    *)
(* fallback plan.                                                          *)
(*                                                                         *)
(* Every invocation carries its own retryWithBackoff frame (retries,       *)
(* delay): they are parameters of the call, not module state.  The model   *)
(* keeps one such frame per invocation id.  An invocation suspends at two  *)
(* places only, as the code does: while the upstream call is in flight     *)
(* ("calling") and while the backoff timer is pending ("waiting").         *)
(***************************************************************************)
EXTENDS Integers, Sequences, FiniteSets, TLC

(***************************************************************************)
(* Bounds of the model                                                     *)
(***************************************************************************)
\* largest retry budget handed to retryWithBackoff by a direct call
MaxRetries == 3
\* direct calls draw their initial delay from 1..MaxInitialDelay (ms)
MaxInitialDelay == 2
\* number of invocation ids; env.invs says which of them may start
MaxInvocations == 2

Inv == 1..MaxInvocations

(***************************************************************************)
(* Program constants                                                       *)
(***************************************************************************)
\* default parameters of retryWithBackoff
DefaultRetries == 3
DefaultDelay == 1000
\* faulty variant: the retry budget left at its default
PlanRetriesDefault == DefaultRetries
\* retryWithBackoff(..., 2, 1000) in generateFitnessPlan
PlanRetries == 2
PlanDelay == 1000
\* retryWithBackoff(..., 2, 1000) in generateMotivationQuote
QuoteRetries == 2
QuoteDelay == 1000

(***************************************************************************)
(* Errors thrown by the upstream call.  error.status is an HTTP status, or *)
(* absent for a network-level failure; NoStatus stands for the absent      *)
(* (falsy) status.                                                         *)
(***************************************************************************)
NoStatus == 0
Statuses == {NoStatus, 400, 401, 402, 404, 429, 499, 500, 503}

NoError == [status |-> -1, attempt |-> 0, name |-> "none"]

(***************************************************************************)
(* Profiles handed to generateFitnessPlan.  NoUserData is undefined/null.  *)
(***************************************************************************)
NoUserData == [defined |-> FALSE, name |-> "", age |-> "", gender |-> "",
               weight |-> "", height |-> "", goal |-> "", fitnessLevel |-> "",
               location |-> "", dietPreference |-> "", sleepHours |-> "",
               waterIntake |-> "", stressLevel |-> ""]

Profiles ==
  { [defined |-> TRUE, name |-> "Ana", age |-> "30", gender |-> "Female",
     weight |-> "60", height |-> "165", goal |-> "Weight Loss",
     fitnessLevel |-> "Beginner", location |-> "Home",
     dietPreference |-> "Vegetarian", sleepHours |-> "7",
     waterIntake |-> "2", stressLevel |-> "Low"],
    [defined |-> TRUE, name |-> "Raj", age |-> "41", gender |-> "Male",
     weight |-> "82", height |-> "178", goal |-> "Muscle Gain",
     fitnessLevel |-> "Advanced", location |-> "Gym",
     dietPreference |-> "Keto", sleepHours |-> "6",
     waterIntake |-> "3", stressLevel |-> "High"] }

UserDatas == Profiles \cup {NoUserData}

\* the fields of a profile: the form's formData
ProfileFields ==
  { "name", "age", "gender", "height", "weight", "goal", "fitnessLevel",
    "location", "dietPreference", "sleepHours", "waterIntake", "stressLevel" }

\* the ${...} slots of the prompt template of generateFitnessPlan, in order
PromptSlots ==
  << "name", "age", "gender", "weight", "height", "fitnessLevel", "goal",
     "location", "dietPreference" >>

\* the profile values interpolated into the prompt, in template order
systemPrompt(u) == [k \in 1..Len(PromptSlots) |-> u[PromptSlots[k]]]

\* the profile values interpolated into the prompt of generateMotivationQuote
quotePrompt(u) == << u.name, u.goal, u.fitnessLevel >>

NoPrompt == << >>

(***************************************************************************)
(* JSON values.  A value keeps its type, its top-level keys, the day names *)
(* of workout_plan, the meal names of diet_plan and summary.daily_calories.*)
(***************************************************************************)
Weekdays == << "Monday", "Tuesday", "Wednesday", "Thursday", "Friday",
               "Saturday", "Sunday" >>
Meals == << "Breakfast", "Lunch", "Snack", "Dinner" >>
PlanKeys == {"workout_plan", "diet_plan", "summary"}

JSONNull ==
  [type |-> "null", keys |-> {}, workout_plan |-> << >>,
   diet_plan |-> << >>, daily_calories |-> 0]
JSONEmptyObject ==
  [type |-> "object", keys |-> {}, workout_plan |-> << >>,
   diet_plan |-> << >>, daily_calories |-> 0]
JSONEmptyArray ==
  [type |-> "array", keys |-> {}, workout_plan |-> << >>,
   diet_plan |-> << >>, daily_calories |-> 0]
\* no value: the function has not returned one
NoValue ==
  [type |-> "undefined", keys |-> {}, workout_plan |-> << >>,
   diet_plan |-> << >>, daily_calories |-> 0]

\* faulty variant: a fallback literal that lost its last day
FallbackPlanSixDays ==
  [type |-> "object", keys |-> PlanKeys,
   workout_plan |-> SubSeq(Weekdays, 1, 6),
   diet_plan |-> Meals, daily_calories |-> 2200]

\* the literal returned by the catch block of generateFitnessPlan
FallbackPlan ==
  [type |-> "object", keys |-> PlanKeys, workout_plan |-> Weekdays,
   diet_plan |-> Meals, daily_calories |-> 2200]

(***************************************************************************)
(* Message contents the upstream can return, and JSON.parse on them.       *)
(***************************************************************************)
EmptyText == ""
InvalidText == "{invalid json"
ProseText == "Here is your plan: {\"workout_plan\":[]}"
EmptyObjectText == "{}"
NullText == "null"
EmptyArrayText == "[]"
PlanText == "{\"workout_plan\":[Mon..Sun],\"diet_plan\":[B,L,S,D],\"summary\":{\"daily_calories\":2500}}"
PlanExtraText == "{\"workout_plan\":[Mon..Sun],\"diet_plan\":[B,L,S,D],\"summary\":{\"daily_calories\":1800},\"notes\":\"x\"}"
ShortPlanText == "{\"workout_plan\":[Mon,Tue,Wed],\"diet_plan\":[B,D],\"summary\":{\"daily_calories\":2000}}"

PaddedText == "  Stay strong.  "

Bodies == { EmptyText, InvalidText, ProseText, EmptyObjectText, NullText,
            EmptyArrayText, PlanText, PlanExtraText, ShortPlanText,
            PaddedText }

\* String.prototype.trim on the contents above: only PaddedText has
\* whitespace at its ends
Trim(text) == IF text = PaddedText THEN "Stay strong." ELSE text

JSONParse(text) ==
  CASE text = EmptyObjectText -> [ok |-> TRUE, value |-> JSONEmptyObject]
    [] text = NullText -> [ok |-> TRUE, value |-> JSONNull]
    [] text = EmptyArrayText -> [ok |-> TRUE, value |-> JSONEmptyArray]
    [] text = PlanText ->
         [ok |-> TRUE,
          value |-> [type |-> "object", keys |-> PlanKeys,
                     workout_plan |-> Weekdays, diet_plan |-> Meals,
                     daily_calories |-> 2500]]
    [] text = PlanExtraText ->
         [ok |-> TRUE,
          value |-> [type |-> "object", keys |-> PlanKeys \cup {"notes"},
                     workout_plan |-> Weekdays, diet_plan |-> Meals,
                     daily_calories |-> 1800]]
    [] text = ShortPlanText ->
         [ok |-> TRUE,
          value |-> [type |-> "object", keys |-> PlanKeys,
                     workout_plan |-> << "Monday", "Tuesday", "Wednesday" >>,
                     diet_plan |-> << "Breakfast", "Dinner" >>,
                     daily_calories |-> 2000]]
    [] OTHER -> [ok |-> FALSE, value |-> NoValue]

(***************************************************************************)
(* Completion objects returned by openai.chat.completions.create:          *)
(* choices is the number of entries of response.choices, isnull says that  *)
(* choices[0].message.content is null, text is the content otherwise.      *)
(***************************************************************************)
NoResponse == [choices |-> -1, isnull |-> TRUE, text |-> ""]

Responses ==
  { [choices |-> 0, isnull |-> TRUE, text |-> ""],
    [choices |-> 1, isnull |-> TRUE, text |-> ""] }
  \cup { [choices |-> 1, isnull |-> FALSE, text |-> b] : b \in Bodies }


(***************************************************************************)
(* retryWithBackoff, statement by statement                                *)
(***************************************************************************)
\* faulty variant: rethrows only below zero
RetriesExhaustedBelowZero(r) == r < 0

\* faulty variant: only a budget of exactly zero stops the retries
RetriesExhaustedAtZero(r) == r = 0

\* if (retries <= 0) throw error;
RetriesExhausted(r) == r <= 0

\* faulty variant: every 4xx is retried too
isRetryableFrom400(error) ==
  error.status = NoStatus \/ error.status >= 400

\* const isRetryable = !error.status || error.status >= 500 || error.status === 429;
isRetryable(error) ==
  error.status = NoStatus \/ error.status >= 500 \/ error.status = 429

\* faulty variant: throws the first error caught
RethrownFirst(errs) == errs[1]

\* the error the catch block throws on: the one it caught
Rethrown(errs) == errs[Len(errs)]

\* faulty variant: the awaited value is dropped
ReturnedUndefined(response) == NoResponse

\* the value retryWithBackoff returns: return await operation();
Returned(response) == response

\* faulty variants: budget decremented by two, delay not doubled
NextRetriesByTwo(r) == r - 2
NextDelayConstant(d) == d

\* retryWithBackoff(operation, retries - 1, delay * 2)
NextRetries(r) == r - 1
NextDelay(d) == d * 2

NoTimer == -1

(***************************************************************************)
(* generateFitnessPlan, try block after the executor has returned          *)
(***************************************************************************)
\* response.choices[0].message.content throws a TypeError without a choice
ContentThrows(response) == response.choices = 0

\* if (!content): null and the empty string are falsy
ContentEmpty(response) == response.isnull \/ response.text = ""

\* faulty variant: keeps the plan's keys only
ParsedKnownKeys(value) == [value EXCEPT !.keys = @ \cap PlanKeys]

\* the object handed to the caller: return JSON.parse(content);
Parsed(value) == value

NoResult == [kind |-> "none", value |-> NoValue, origin |-> "none",
             error |-> "none", text |-> ""]

\* try { ... return JSON.parse(content) } catch { return fallback }
PlanFromResponse(response) ==
  IF ContentThrows(response) \/ ContentEmpty(response)
       \/ ~JSONParse(response.text).ok
  THEN [kind |-> "resolved", value |-> FallbackPlan, origin |-> "Fallback",
        error |-> "none", text |-> ""]
  ELSE [kind |-> "resolved", value |-> Parsed(JSONParse(response.text).value),
        origin |-> "Generated", error |-> "none", text |-> ""]

\* faulty variant: the catch block throws a new Error, as it once did
PlanFromErrorRethrow(error) ==
  [kind |-> "rejected", value |-> NoValue, origin |-> "none",
   error |-> "Error", text |-> ""]

\* catch (error) { ... return { fallback } } after the executor has thrown
PlanFromError(error) ==
  [kind |-> "resolved", value |-> FallbackPlan, origin |-> "Fallback",
   error |-> "none", text |-> ""]

\* faulty variant: the destructuring is caught and the fallback substituted
DestructuringCaught ==
  [kind |-> "resolved", value |-> FallbackPlan, origin |-> "Fallback",
   error |-> "none", text |-> ""]

\* the rejection of an async function whose destructuring of userData threw
RejectedTypeError ==
  [kind |-> "rejected", value |-> NoValue, origin |-> "none",
   error |-> "TypeError", text |-> ""]

(***************************************************************************)
(* generateMotivationQuote                                                 *)
(***************************************************************************)
\* return "Consistency is the key to progress. Keep showing up!";
FallbackQuote == "Consistency is the key to progress. Keep showing up!"

\* faulty variant: only a missing choice throws, a null content is returned
QuoteThrowsNoChoiceOnly(response) == response.choices = 0

\* response.choices[0].message.content.trim() throws a TypeError without a
\* choice or with a null content; it runs inside the retried operation
QuoteThrows(response) == response.choices = 0 \/ response.isnull

\* const quote = response.choices[0].message.content.trim(); return quote;
QuoteFromResponse(response) ==
  [kind |-> "resolved", value |-> NoValue, origin |-> "Generated",
   error |-> "none", text |-> Trim(response.text)]

\* faulty variant: the catch block lets the error through
QuoteFromErrorRethrow(error) ==
  [kind |-> "rejected", value |-> NoValue, origin |-> "none",
   error |-> error.name, text |-> ""]

\* catch (error) { ... return "Consistency is the key to progress. ..." }
QuoteFromError(error) ==
  [kind |-> "resolved", value |-> NoValue, origin |-> "Fallback",
   error |-> "none", text |-> FallbackQuote]

(***************************************************************************)
(* The operation handed to retryWithBackoff, per caller                    *)
(***************************************************************************)
\* faulty variant: every caller's operation reads the content of the response
OperationThrowsAnyCaller(c, response) == QuoteThrows(response)

\* does the operation throw after the upstream call has returned?  Only the
\* operation of generateMotivationQuote reads the response itself.
OperationThrows(c, response) == c = "quote" /\ QuoteThrows(response)

\* faulty variant: the prompt is lost on the retries
SentPromptFirstOnly(p, attempt) == IF attempt > 1 THEN NoPrompt ELSE p

\* the prompt the operation sends on one of its calls: the caller's const
SentPrompt(p, attempt) == p

\* what the caller makes of the value retryWithBackoff returned
CallerFromResponse(c, response, old) ==
  CASE c = "plan" -> PlanFromResponse(response)
    [] c = "quote" -> QuoteFromResponse(response)
    [] OTHER -> old

\* what the caller makes of the error retryWithBackoff threw
CallerFromError(c, error, old) ==
  CASE c = "plan" -> PlanFromError(error)
    [] c = "quote" -> QuoteFromError(error)
    [] OTHER -> old

(***************************************************************************)
(* The multi-step form (InputForm).  Text is a sequence of characters, so  *)
(* that the tests updateField and isCurrentStepValid make on it are        *)
(* computed, not assumed.                                                  *)
(***************************************************************************)
Digits == {"0", "1", "2", "3", "4", "5", "6", "7", "8", "9"}
Letters ==
  {"a", "b", "c", "d", "e", "f", "g", "h", "i", "j", "k", "l", "m", "n", "o",
   "p", "q", "r", "s", "t", "u", "v", "w", "x", "y", "z", "A", "B", "C", "D",
   "E", "F", "G", "H", "I", "J", "K", "L", "M", "N", "O", "P", "Q", "R", "S",
   "T", "U", "V", "W", "X", "Y", "Z"}
Whitespace == {" "}

\* const numericFields = ['age', 'height', 'weight', 'sleepHours', 'waterIntake'];
numericFields == {"age", "height", "weight", "sleepHours", "waterIntake"}

\* faulty variant: digits and decimal points in any number
isValidNumberAnyDots(value) ==
  \A k \in 1..Len(value) : value[k] \in Digits \cup {"."}

\* value === '' || /^\d*\.?\d*$/.test(value)
isValidNumber(value) ==
  \/ value = << >>
  \/ \E dot \in 0..Len(value) :
       \A k \in 1..Len(value) :
         IF k = dot THEN value[k] = "." \/ value[k] \in Digits
         ELSE value[k] \in Digits

\* value === '' || /^[a-zA-Z\s]*$/.test(value)
isValidName(value) ==
  \/ value = << >>
  \/ \A k \in 1..Len(value) : value[k] \in Letters \cup Whitespace

\* String.prototype.trim
RECURSIVE TrimLeft(_)
TrimLeft(s) ==
  IF s # << >> /\ Head(s) \in Whitespace THEN TrimLeft(Tail(s)) ELSE s
RECURSIVE TrimRight(_)
TrimRight(s) ==
  IF s # << >> /\ s[Len(s)] \in Whitespace
  THEN TrimRight(SubSeq(s, 1, Len(s) - 1)) ELSE s
trim(s) == TrimRight(TrimLeft(s))

\* parseFloat reads, after leading whitespace and an optional sign, the
\* longest run of digits with at most one decimal point (exponents are not
\* modelled); NumberEnd is the index of the last character of that run
RECURSIVE NumberEnd(_, _, _)
NumberEnd(s, k, seenDot) ==
  IF k > Len(s) THEN Len(s)
  ELSE IF s[k] \in Digits THEN NumberEnd(s, k + 1, seenDot)
  ELSE IF s[k] = "." /\ ~seenDot THEN NumberEnd(s, k + 1, TRUE)
  ELSE k - 1

\* parseFloat(text) > 0: false for NaN (no digit read), zero and negatives
parseFloatPositive(text) ==
  LET s == TrimLeft(text)
      signed == s # << >> /\ Head(s) \in {"-", "+"}
      digits == IF signed THEN Tail(s) ELSE s
      read == SubSeq(digits, 1, NumberEnd(digits, 1, FALSE))
  IN /\ \E k \in 1..Len(read) : read[k] \in Digits \ {"0"}
     /\ ~(signed /\ Head(s) = "-")

\* option values of the selects and button groups
Male == << "M", "a", "l", "e" >>
WeightLoss == << "W", "e", "i", "g", "h", "t", " ", "L", "o", "s", "s" >>
MuscleGain == << "M", "u", "s", "c", "l", "e", " ", "G", "a", "i", "n" >>
Beginner == << "B", "e", "g", "i", "n", "n", "e", "r" >>
Advanced == << "A", "d", "v", "a", "n", "c", "e", "d" >>
Low == << "L", "o", "w" >>
Gym == << "G", "y", "m" >>
Home == << "H", "o", "m", "e" >>
Vegan == << "V", "e", "g", "a", "n" >>

\* useState({ name: '', age: '', ..., goal: 'Weight Loss', ... })
InitialFormData ==
  [name |-> << >>, age |-> << >>, gender |-> << >>, height |-> << >>,
   weight |-> << >>, goal |-> WeightLoss, fitnessLevel |-> Beginner,
   location |-> Gym, dietPreference |-> << >>, sleepHours |-> << >>,
   waterIntake |-> << >>, stressLevel |-> << >>]

\* the fields each step renders
StepFields(step) ==
  CASE step = 1 -> {"name", "age", "gender", "height", "weight", "sleepHours",
                    "waterIntake"}
    [] step = 2 -> {"goal", "fitnessLevel", "stressLevel"}
    [] OTHER -> {"location", "dietPreference"}

\* the values the inputs of a field hand to updateField
FieldInputs(field) ==
  CASE field \in numericFields ->
         { << >>, << "0" >>, << "7" >>, << "." >>, << "-", "7" >>,
           << ".", "." >> }
    [] field = "name" -> { << >>, << " " >>, << "a" >>, << "a", "7" >> }
    [] field = "gender" -> { Male }
    [] field = "goal" -> { WeightLoss, MuscleGain }
    [] field = "fitnessLevel" -> { Beginner, Advanced }
    [] field = "stressLevel" -> { Low }
    [] field = "location" -> { Gym, Home }
    [] OTHER -> { Vegan }

\* function updateField(fieldName, value): the formData it leaves
updateField(data, fieldName, value) ==
  IF fieldName \in numericFields
  THEN IF isValidNumber(value) THEN [data EXCEPT ![fieldName] = value]
       ELSE data
  ELSE IF fieldName = "name"
  THEN IF isValidName(value) THEN [data EXCEPT ![fieldName] = value]
       ELSE data
  ELSE [data EXCEPT ![fieldName] = value]

\* faulty variant: the field only has to be non-empty
hasValidNumberNotEmpty(text) == text # << >>

\* formData.x !== '' && parseFloat(formData.x) > 0
hasValidNumber(text) == text # << >> /\ parseFloatPositive(text)

\* function isCurrentStepValid()
isCurrentStepValid(step, data) ==
  CASE step = 1 ->
         /\ Len(trim(data.name)) > 0
         /\ data.gender # << >>
         /\ hasValidNumber(data.age)
         /\ hasValidNumber(data.height)
         /\ hasValidNumber(data.weight)
         /\ hasValidNumber(data.sleepHours)
         /\ hasValidNumber(data.waterIntake)
    [] step = 2 ->
         /\ data.goal # << >>
         /\ data.fitnessLevel # << >>
         /\ data.stressLevel # << >>
    [] step = 3 ->
         /\ data.location # << >>
         /\ data.dietPreference # << >>
    [] OTHER -> TRUE

(***************************************************************************)
(* The plan cache: one slot holding the latest plan as text.  put          *)
(* serializes, get deserializes, and a text that does not deserialize      *)
(* counts as absent.                                                       *)
(***************************************************************************)
MaxPuts == 3

FallbackText == "{\"workout_plan\":[Mon..Sun],\"diet_plan\":[B,L,S,D],\"summary\":{\"daily_calories\":2200}}"

\* the plans the pipeline can hand to the cache
CachePlans ==
  { FallbackPlan, JSONParse(PlanText).value, JSONParse(PlanExtraText).value,
    JSONParse(ShortPlanText).value }

\* put serializes to text
Serialize(plan) ==
  CASE plan = FallbackPlan -> FallbackText
    [] plan = JSONParse(PlanText).value -> PlanText
    [] plan = JSONParse(PlanExtraText).value -> PlanExtraText
    [] plan = JSONParse(ShortPlanText).value -> ShortPlanText
    [] OTHER -> InvalidText

\* get deserializes
Deserialize(text) ==
  IF text = FallbackText THEN [ok |-> TRUE, value |-> FallbackPlan]
  ELSE JSONParse(text)

Absent == [called |-> TRUE, present |-> FALSE, value |-> NoValue]
NotRead == [called |-> FALSE, present |-> FALSE, value |-> NoValue]

\* get() -> FitnessPlan | absent
CacheGet(entries) ==
  IF entries = << >> \/ ~Deserialize(entries[1]).ok THEN Absent
  ELSE [called |-> TRUE, present |-> TRUE,
        value |-> Deserialize(entries[1]).value]

\* faulty variant: put adds an entry next to the ones already stored
CachePutAppends(entries, plan) == Append(entries, Serialize(plan))

\* put(plan): overwrite the slot
CachePut(entries, plan) == << Serialize(plan) >>

(***************************************************************************)
(* ImageModal: its props, its state and its three effects                  *)
(***************************************************************************)
NoItem == ""
ModalItems == {NoItem, "Barbell Squat", "Oatmeal"}
ModalTypes == {"exercise", "meal"}
ModalGenders == {"", "Female"}
\* the identities of the onClose callback the parent passes
OnCloses == {1, 2}

NoUrl == << >>

\* generateImageUrl(prompt, type, gender): the prompt, and for an exercise
\* the gender term, embedded in the URL
generateImageUrl(itemName, type, gender) ==
  IF type = "exercise" THEN << "exercise", gender, itemName >>
  ELSE << "meal", itemName >>

ClosedProps ==
  [isOpen |-> FALSE, itemName |-> NoItem, type |-> "exercise",
   userGender |-> "", onClose |-> 1]

ModalPropsSet ==
  [isOpen : BOOLEAN, itemName : ModalItems, type : ModalTypes,
   userGender : ModalGenders, onClose : OnCloses]

\* useState(true), useState(false), useState('')
InitialModalState ==
  [isLoading |-> TRUE, hasError |-> FALSE, imageUrl |-> NoUrl]

NoEvent ==
  [kind |-> "none", key |-> "", calledOnClose |-> FALSE, wasOpen |-> FALSE]
Event(k) ==
  [kind |-> k, key |-> "", calledOnClose |-> FALSE, wasOpen |-> FALSE]
Keys == {"Escape", "Enter"}

\* faulty variant: the URL is regenerated but the flags are left alone
imageEffectKeepsFlags(m, p) ==
  IF p.isOpen /\ p.itemName # NoItem
  THEN [m EXCEPT !.imageUrl =
          generateImageUrl(p.itemName, p.type, p.userGender)]
  ELSE m

\* the first effect: if (isOpen && itemName) { setIsLoading(true); ... }
imageEffect(m, p) ==
  IF p.isOpen /\ p.itemName # NoItem
  THEN [isLoading |-> TRUE, hasError |-> FALSE,
        imageUrl |-> generateImageUrl(p.itemName, p.type, p.userGender)]
  ELSE m

\* the dependencies of the first effect changed
imageDepsChanged(old, new) ==
  \/ old.isOpen # new.isOpen
  \/ old.itemName # new.itemName
  \/ old.type # new.type
  \/ old.userGender # new.userGender

\* function handleImageLoad()
handleImageLoad(m) == [m EXCEPT !.isLoading = FALSE]

\* function handleImageError()
handleImageError(m) == [m EXCEPT !.isLoading = FALSE, !.hasError = TRUE]

\* faulty variant: the second effect returns no cleanup
escapeCleanupMissing(ls, old) == ls

\* the cleanup of the second effect: removeEventListener of the handler the
\* effect registered, if it registered one
escapeCleanup(ls, old) ==
  IF old.isOpen /\ ls # << >> THEN SubSeq(ls, 1, Len(ls) - 1) ELSE ls

\* the second effect: if (isOpen) document.addEventListener('keydown', ...)
escapeEffect(ls, p) == IF p.isOpen THEN Append(ls, p.onClose) ELSE ls

\* the dependencies of the second effect changed
escapeDepsChanged(old, new) ==
  old.isOpen # new.isOpen \/ old.onClose # new.onClose

\* the cleanup of the third effect: document.body.style.overflow = ''
scrollCleanup(overflow, old) == IF old.isOpen THEN "" ELSE overflow

\* the third effect: if (isOpen) document.body.style.overflow = 'hidden'
scrollEffect(overflow, p) == IF p.isOpen THEN "hidden" ELSE overflow

\* what the image container renders
spinnerShown(m) == m.isLoading
errorShown(m) == m.hasError /\ ~m.isLoading
imageVisible(m) == ~(m.isLoading \/ m.hasError)

(***************************************************************************)
(* Navbar: the theme, the class on the document root and localStorage      *)
(***************************************************************************)
NoStoredTheme == "<null>"
\* what localStorage can hold under 'theme'
StoredThemes == {NoStoredTheme, "dark", "light"}
\* the themes the buttons select
Themes == {"light", "dark"}
MaxThemeChanges == 5

\* localStorage.getItem('theme') || 'dark'
savedTheme(stored) ==
  IF stored = NoStoredTheme \/ stored = "" THEN "dark" ELSE stored

\* faulty variant: the class is added whatever the theme
rootDarkAfterAlways(t) == TRUE

\* classList.add('dark') if theme === 'dark', classList.remove('dark') else
rootDarkAfter(t) == t = "dark"

(***************************************************************************)
(* State                                                                   *)
(***************************************************************************)
VARIABLES
  env,        \* which invocation ids may start, lowest direct retry budget
  pc,         \* "idle", "calling", "waiting", "done"
  caller,     \* "none", "plan" (generateFitnessPlan), "quote"
              \* (generateMotivationQuote), "direct"
  userData,   \* the argument of generateFitnessPlan
  prompt,     \* systemPrompt of the invocation
  requests,   \* the prompts sent upstream, one per call of operation()
  retries,    \* retries of the current retryWithBackoff frame
  delay,      \* delay of the current retryWithBackoff frame
  retries0,   \* retries of the outermost frame
  delay0,     \* delay of the outermost frame
  attempts,   \* calls of operation() made so far
  inflight,   \* calls of operation() not yet settled
  timer,      \* delay of the pending setTimeout, NoTimer if none
  waits,      \* delays of the timers that have fired
  errors,     \* errors thrown by the attempts, oldest first
  opReturn,   \* the response the last successful attempt returned
  rwb,        \* how retryWithBackoff settled
  result,     \* how generateFitnessPlan settled
  currentStep,  \* the step of the form, 1..3
  formData,     \* the form's field values
  route,        \* "/get-started" (the form) or "/dashboard"
  navState,     \* the userData handed to /dashboard by navigate
  cacheEntries, \* the texts the plan cache stores
  cachePuts,    \* the plans handed to put(), in order
  cacheGot,     \* what the last get() since the last put() returned
  modalMounted, \* the ImageModal component is mounted
  modalProps,   \* its props: isOpen, itemName, type, userGender, onClose
  modal,        \* its state: isLoading, hasError, imageUrl
  listeners,    \* the keydown listeners on document, by the onClose they call
  bodyOverflow, \* document.body.style.overflow
  lastEvent,    \* the last thing that happened to the modal
  navMounted,   \* the Navbar component is mounted
  theme,        \* its theme state
  storedTheme,  \* localStorage 'theme'
  rootDark,     \* document.documentElement has the class 'dark'
  themeLog      \* the themes the user selected, in order

vars == << env, pc, caller, userData, prompt, requests, retries, delay, retries0,
           delay0, attempts, inflight, timer, waits, errors, opReturn, rwb,
           result, currentStep, formData, route, navState, cacheEntries,
           cachePuts, cacheGot, modalMounted, modalProps, modal, listeners,
           bodyOverflow, lastEvent, navMounted, theme, storedTheme, rootDark,
           themeLog >>

formVars == << currentStep, formData, route, navState >>
cacheVars == << cacheEntries, cachePuts, cacheGot >>
modalVars == << modalMounted, modalProps, modal, listeners, bodyOverflow,
                lastEvent >>
themeVars == << navMounted, theme, storedTheme, rootDark, themeLog >>

RwbPending == [kind |-> "pending", response |-> NoResponse, error |-> NoError]

DirectRetries == env.minRetries..MaxRetries
DirectDelays == (1..MaxInitialDelay) \cup {DefaultDelay}

InitWith(e) ==
  /\ env = e
  /\ pc = [i \in Inv |-> "idle"]
  /\ caller = [i \in Inv |-> "none"]
  /\ userData = [i \in Inv |-> NoUserData]
  /\ prompt = [i \in Inv |-> NoPrompt]
  /\ requests = [i \in Inv |-> << >>]
  /\ retries = [i \in Inv |-> 0]
  /\ delay = [i \in Inv |-> 0]
  /\ retries0 = [i \in Inv |-> 0]
  /\ delay0 = [i \in Inv |-> 0]
  /\ attempts = [i \in Inv |-> 0]
  /\ inflight = [i \in Inv |-> 0]
  /\ timer = [i \in Inv |-> NoTimer]
  /\ waits = [i \in Inv |-> << >>]
  /\ errors = [i \in Inv |-> << >>]
  /\ opReturn = [i \in Inv |-> NoResponse]
  /\ rwb = [i \in Inv |-> RwbPending]
  /\ result = [i \in Inv |-> NoResult]
  /\ currentStep = 1
  /\ formData = InitialFormData
  /\ route = "/get-started"
  /\ navState = InitialFormData
  /\ cacheEntries = << >>
  /\ cachePuts = << >>
  /\ cacheGot = NotRead
  /\ modalMounted = FALSE
  /\ modalProps = ClosedProps
  /\ modal = InitialModalState
  /\ listeners = << >>
  /\ bodyOverflow = ""
  /\ lastEvent = NoEvent
  /\ navMounted = FALSE
  /\ theme = "dark"
  /\ storedTheme = NoStoredTheme
  /\ rootDark = FALSE
  /\ themeLog = << >>

\* one invocation at a time, retry budgets from 0 up
Init == InitWith([invs |-> {1}, minRetries |-> 0])

(***************************************************************************)
(* Actions                                                                 *)
(***************************************************************************)
\* faulty variant: the remaining retries and the delay are kept in one place
\* for all invocations, so entering the executor resets them for everyone
StartRetryShared(i, r, d, p) ==
  /\ retries' = [j \in Inv |-> r]
  /\ delay' = [j \in Inv |-> d]
  /\ retries0' = [retries0 EXCEPT ![i] = r]
  /\ delay0' = [delay0 EXCEPT ![i] = d]
  /\ attempts' = [attempts EXCEPT ![i] = @ + 1]
  /\ inflight' = [inflight EXCEPT ![i] = @ + 1]
  /\ requests' = [requests EXCEPT ![i] = Append(@, SentPrompt(p, 1))]

\* retryWithBackoff(operation, r, d) is entered and calls operation(),
\* which sends the prompt p upstream
StartRetry(i, r, d, p) ==
  /\ retries' = [retries EXCEPT ![i] = r]
  /\ delay' = [delay EXCEPT ![i] = d]
  /\ retries0' = [retries0 EXCEPT ![i] = r]
  /\ delay0' = [delay0 EXCEPT ![i] = d]
  /\ attempts' = [attempts EXCEPT ![i] = @ + 1]
  /\ inflight' = [inflight EXCEPT ![i] = @ + 1]
  /\ requests' = [requests EXCEPT ![i] = Append(@, SentPrompt(p, 1))]

\* generateFitnessPlan(u): destructure, build the prompt, start the executor.
\* Destructuring undefined/null throws outside the try block.
GenerateFitnessPlan(i, u) ==
  /\ UNCHANGED << formVars, cacheVars, modalVars, themeVars >>
  /\ i \in env.invs
  /\ pc[i] = "idle"
  /\ caller' = [caller EXCEPT ![i] = "plan"]
  /\ userData' = [userData EXCEPT ![i] = u]
  /\ IF ~u.defined
     THEN /\ pc' = [pc EXCEPT ![i] = "done"]
          /\ result' = [result EXCEPT ![i] = RejectedTypeError]
          /\ UNCHANGED << prompt, requests, retries, delay, retries0, delay0,
                          attempts, inflight >>
     ELSE /\ pc' = [pc EXCEPT ![i] = "calling"]
          /\ prompt' = [prompt EXCEPT ![i] = systemPrompt(u)]
          /\ StartRetry(i, PlanRetries, PlanDelay, systemPrompt(u))
          /\ UNCHANGED result
  /\ UNCHANGED << env, timer, waits, errors, opReturn, rwb >>

\* generateMotivationQuote(u): destructure, build the prompt, start the
\* executor.  Destructuring undefined/null throws outside the try block.
GenerateMotivationQuote(i, u) ==
  /\ UNCHANGED << formVars, cacheVars, modalVars, themeVars >>
  /\ i \in env.invs
  /\ pc[i] = "idle"
  /\ caller' = [caller EXCEPT ![i] = "quote"]
  /\ userData' = [userData EXCEPT ![i] = u]
  /\ IF ~u.defined
     THEN /\ pc' = [pc EXCEPT ![i] = "done"]
          /\ result' = [result EXCEPT ![i] = RejectedTypeError]
          /\ UNCHANGED << prompt, requests, retries, delay, retries0, delay0,
                          attempts, inflight >>
     ELSE /\ pc' = [pc EXCEPT ![i] = "calling"]
          /\ prompt' = [prompt EXCEPT ![i] = quotePrompt(u)]
          /\ StartRetry(i, QuoteRetries, QuoteDelay, quotePrompt(u))
          /\ UNCHANGED result
  /\ UNCHANGED << env, timer, waits, errors, opReturn, rwb >>

\* retryWithBackoff called on its own with a retry budget and a delay
RetryWithBackoff(i, r, d) ==
  /\ UNCHANGED << formVars, cacheVars, modalVars, themeVars >>
  /\ i \in env.invs
  /\ pc[i] = "idle"
  /\ caller' = [caller EXCEPT ![i] = "direct"]
  /\ pc' = [pc EXCEPT ![i] = "calling"]
  /\ StartRetry(i, r, d, NoPrompt)
  /\ UNCHANGED << env, userData, prompt, timer, waits, errors, opReturn, rwb,
                  result >>

\* the catch block of retryWithBackoff with the error of the attempt: it
\* either rethrows (and the caller's catch block runs) or sets the timer
Caught(i, error) ==
  LET errs == Append(errors[i], error)
  IN /\ errors' = [errors EXCEPT ![i] = errs]
     /\ IF RetriesExhausted(retries[i]) \/ ~isRetryable(error)
        THEN /\ rwb' = [rwb EXCEPT ![i] =
                  [kind |-> "rejected", response |-> NoResponse,
                   error |-> Rethrown(errs)]]
             /\ result' = [result EXCEPT ![i] =
                  CallerFromError(caller[i], Rethrown(errs), @)]
             /\ pc' = [pc EXCEPT ![i] = "done"]
             /\ UNCHANGED timer
        ELSE /\ timer' = [timer EXCEPT ![i] = delay[i]]
             /\ pc' = [pc EXCEPT ![i] = "waiting"]
             /\ UNCHANGED << rwb, result >>

\* the upstream call returns.  If the operation throws while reading the
\* response, the catch block of retryWithBackoff runs with an error that has
\* no status; otherwise retryWithBackoff returns the operation's value and
\* the caller's try block runs to its return.
OperationResolves(i, response) ==
  /\ UNCHANGED << formVars, cacheVars, modalVars, themeVars >>
  /\ pc[i] = "calling"
  /\ inflight' = [inflight EXCEPT ![i] = @ - 1]
  /\ IF OperationThrows(caller[i], response)
     THEN /\ Caught(i, [status |-> NoStatus, attempt |-> attempts[i],
                        name |-> "TypeError"])
          /\ UNCHANGED opReturn
     ELSE /\ opReturn' = [opReturn EXCEPT ![i] = response]
          /\ rwb' = [rwb EXCEPT ![i] =
               [kind |-> "resolved", response |-> Returned(response),
                error |-> NoError]]
          /\ result' = [result EXCEPT ![i] =
               CallerFromResponse(caller[i], Returned(response), @)]
          /\ pc' = [pc EXCEPT ![i] = "done"]
          /\ UNCHANGED << timer, errors >>
  /\ UNCHANGED << env, caller, userData, prompt, requests, retries, delay,
                  retries0, delay0, attempts, waits >>

\* the upstream call throws: the catch block of retryWithBackoff runs
OperationRejects(i, status) ==
  /\ UNCHANGED << formVars, cacheVars, modalVars, themeVars >>
  /\ pc[i] = "calling"
  /\ inflight' = [inflight EXCEPT ![i] = @ - 1]
  /\ Caught(i, [status |-> status, attempt |-> attempts[i],
                name |-> "APIError"])
  /\ UNCHANGED << env, caller, userData, prompt, requests, retries, delay,
                  retries0, delay0, attempts, waits, opReturn >>

\* faulty variant: the timer fires but the awaited promise is never resolved
TimerFiresUnresolved(i) ==
  /\ UNCHANGED << formVars, cacheVars, modalVars, themeVars >>
  /\ pc[i] = "waiting"
  /\ timer[i] # NoTimer
  /\ timer' = [timer EXCEPT ![i] = NoTimer]
  /\ UNCHANGED << env, pc, caller, userData, prompt, requests, retries, delay,
                  retries0, delay0, attempts, inflight, waits, errors,
                  opReturn, rwb, result >>

\* the backoff timer fires: the recursive call calls operation() again
TimerFires(i) ==
  /\ UNCHANGED << formVars, cacheVars, modalVars, themeVars >>
  /\ pc[i] = "waiting"
  /\ timer[i] # NoTimer
  /\ waits' = [waits EXCEPT ![i] = Append(@, timer[i])]
  /\ timer' = [timer EXCEPT ![i] = NoTimer]
  /\ retries' = [retries EXCEPT ![i] = NextRetries(@)]
  /\ delay' = [delay EXCEPT ![i] = NextDelay(@)]
  /\ attempts' = [attempts EXCEPT ![i] = @ + 1]
  /\ inflight' = [inflight EXCEPT ![i] = @ + 1]
  /\ requests' = [requests EXCEPT ![i] =
       Append(@, SentPrompt(prompt[i], attempts[i] + 1))]
  /\ pc' = [pc EXCEPT ![i] = "calling"]
  /\ UNCHANGED << env, caller, userData, prompt, retries0, delay0, errors,
                  opReturn, rwb, result >>

Next ==
  \/ \E i \in Inv, u \in UserDatas : GenerateFitnessPlan(i, u)
  \/ \E i \in Inv, u \in UserDatas : GenerateMotivationQuote(i, u)
  \/ \E i \in Inv, r \in DirectRetries, d \in DirectDelays :
       RetryWithBackoff(i, r, d)
  \/ \E i \in Inv, response \in Responses : OperationResolves(i, response)
  \/ \E i \in Inv, status \in Statuses : OperationRejects(i, status)
  \/ \E i \in Inv : TimerFires(i)

Spec == Init /\ [][Next]_vars

\* the upstream call of invocation i settles, one way or the other
UpstreamSettles(i) ==
  \/ \E response \in Responses : OperationResolves(i, response)
  \/ \E status \in Statuses : OperationRejects(i, status)

\* every upstream call eventually settles and every backoff timer
\* eventually fires
Fairness ==
  \A i \in Inv : WF_vars(UpstreamSettles(i)) /\ WF_vars(TimerFires(i))

SpecLive == Init /\ [][Next]_vars /\ Fairness

\* retryWithBackoff called on its own with any retry budget, negative ones
\* included
\* how far below zero the budgets go
MaxBelowZero == 2
MinRetries == 0 - MaxBelowZero
InitAnyBudget == InitWith([invs |-> {1}, minRetries |-> MinRetries])

NextDirect ==
  \/ \E i \in Inv, r \in DirectRetries, d \in DirectDelays :
       RetryWithBackoff(i, r, d)
  \/ \E i \in Inv, response \in Responses : OperationResolves(i, response)
  \/ \E i \in Inv, status \in Statuses : OperationRejects(i, status)
  \/ \E i \in Inv : TimerFires(i)

SpecAnyBudget == InitAnyBudget /\ [][NextDirect]_vars

\* two invocations of generateFitnessPlan that may overlap in time
InitConcurrent == InitWith([invs |-> {1, 2}, minRetries |-> 0])

NextPlan ==
  \/ \E i \in Inv, u \in UserDatas : GenerateFitnessPlan(i, u)
  \/ \E i \in Inv, response \in Responses : OperationResolves(i, response)
  \/ \E i \in Inv, status \in Statuses : OperationRejects(i, status)
  \/ \E i \in Inv : TimerFires(i)

SpecConcurrent == InitConcurrent /\ [][NextPlan]_vars


(***************************************************************************)
(* Auxiliary definitions of the properties                                 *)
(***************************************************************************)
RECURSIVE Pow2(_)
Pow2(k) == IF k <= 0 THEN 1 ELSE 2 * Pow2(k - 1)

Range(seq) == { seq[k] : k \in 1..Len(seq) }

AllStatus(errs, s) == \A k \in 1..Len(errs) : errs[k].status = s

\* every attempt made so far has failed (none is in flight, none succeeded)
AllAttemptsFailed(i) == attempts[i] >= 1 /\ Len(errors[i]) = attempts[i]

\* a status the retry policy does not retry
TerminalStatus(s) == s # NoStatus /\ s # 429 /\ s < 500

IsPlanObject(v) == v.type = "object" /\ PlanKeys \subseteq v.keys

IsFallbackResult(r) ==
  r.kind = "resolved" /\ r.value = FallbackPlan /\ r.origin = "Fallback"

\* the upstream call of a finished plan invocation returned this content
ReturnedContent(i, text) ==
  /\ caller[i] = "plan"
  /\ pc[i] = "done"
  /\ rwb[i].kind = "resolved"
  /\ rwb[i].response.choices = 1
  /\ ~rwb[i].response.isnull
  /\ rwb[i].response.text = text

\* generateFitnessPlan, handed a profile object, settles by resolving
NoErrorReachesCaller ==
  \A i \in Inv :
    (caller[i] = "plan" /\ userData[i].defined /\ pc[i] = "done")
      => result[i].kind = "resolved"

(***************************************************************************)
(* C1: generateFitnessPlan, handed a profile, never rejects and resolves   *)
(* to a plan object whatever the upstream outcomes were.  The code never   *)
(* rejects, but resolves to whatever JSON.parse gives: {} or null for the  *)
(* bodies "{}" and "null".                                                 *)
(***************************************************************************)
C1_ResolvesToPlanObject ==
  \A i \in Inv :
    (caller[i] = "plan" /\ userData[i].defined /\ pc[i] = "done")
      => (result[i].kind = "resolved" /\ IsPlanObject(result[i].value))

(***************************************************************************)
(* C2: when every attempt fails with HTTP 500, retryWithBackoff calls the  *)
(* operation exactly maxRetries + 1 times, waits initialDelay * 2^(k-1)    *)
(* before attempt k+1, and rejects only after the last of these attempts.  *)
(***************************************************************************)
C2_Always500Schedule ==
  \A i \in Inv :
    (AllAttemptsFailed(i) /\ AllStatus(errors[i], 500)) =>
      /\ \A k \in 1..Len(waits[i]) : waits[i][k] = delay0[i] * Pow2(k - 1)
      /\ timer[i] # NoTimer => timer[i] = delay0[i] * Pow2(Len(waits[i]))
      /\ rwb[i].kind # "resolved"
      /\ rwb[i].kind = "rejected" <=> attempts[i] = retries0[i] + 1
      /\ rwb[i].kind = "rejected" =>
           /\ Len(waits[i]) = retries0[i]
           /\ rwb[i].error.status = 500

C2_Witness ==
  \E i \in Inv :
    /\ caller[i] = "direct"
    /\ retries0[i] >= 2
    /\ AllAttemptsFailed(i)
    /\ AllStatus(errors[i], 500)
    /\ rwb[i].kind = "rejected"
    /\ Len(waits[i]) = retries0[i]

(***************************************************************************)
(* C3: when the first attempt fails with 401 or another non-retryable      *)
(* status, exactly one attempt is made, no backoff wait happens, the       *)
(* failure is rethrown at once, and generateFitnessPlan returns the        *)
(* fallback plan after that single attempt.                                *)
(***************************************************************************)
C3_TerminalFirstAttempt ==
  \A i \in Inv :
    (Len(errors[i]) >= 1 /\ TerminalStatus(errors[i][1].status)) =>
      /\ attempts[i] = 1
      /\ waits[i] = << >>
      /\ timer[i] = NoTimer
      /\ pc[i] = "done"
      /\ rwb[i].kind = "rejected"
      /\ rwb[i].error = errors[i][1]
      /\ caller[i] = "plan" => IsFallbackResult(result[i])

C3_Witness ==
  \E i \in Inv :
    /\ caller[i] = "plan"
    /\ Len(errors[i]) = 1
    /\ errors[i][1].status = 401
    /\ attempts[i] = 1
    /\ IsFallbackResult(result[i])

(***************************************************************************)
(* C4: a failed attempt is followed by another attempt if and only if      *)
(* attempts remain (retries > 0) and the error is retryable: no status,    *)
(* status >= 500 or status = 429.  Any other status ends the invocation,   *)
(* and a new attempt only ever follows such a failure.                     *)
(***************************************************************************)
C4_RetryIffRetryable ==
  [][ \A i \in Inv :
        /\ Len(errors'[i]) > Len(errors[i]) =>
             LET e == errors'[i][Len(errors'[i])]
             IN /\ pc'[i] = "waiting" <=>
                     /\ retries[i] > 0
                     /\ (e.status = NoStatus \/ e.status >= 500 \/ e.status = 429)
                /\ pc'[i] # "waiting" =>
                     (pc'[i] = "done" /\ attempts'[i] = attempts[i])
        /\ (pc[i] = "waiting" /\ pc'[i] # "waiting") =>
             (pc'[i] = "calling" /\ attempts'[i] = attempts[i] + 1)
        /\ (attempts'[i] > attempts[i] /\ attempts[i] >= 1) =>
             pc[i] = "waiting"
        /\ pc[i] = "done" => (pc'[i] = "done" /\ attempts'[i] = attempts[i])
    ]_vars

C4_Witness ==
  \E i \in Inv :
    /\ Len(errors[i]) = 2
    /\ errors[i][1].status = 429
    /\ errors[i][2].status = 404
    /\ retries[i] >= 1
    /\ attempts[i] = 2
    /\ pc[i] = "done"

(***************************************************************************)
(* C5: on a terminal failure or with the attempts used up, retryWithBackoff*)
(* rejects with the error the last attempt threw; whenever it resolves,    *)
(* its value is the value a successful call of the operation returned.     *)
(***************************************************************************)
C5_PropagatesLastError ==
  \A i \in Inv :
    /\ rwb[i].kind = "rejected" =>
         /\ AllAttemptsFailed(i)
         /\ rwb[i].error = errors[i][attempts[i]]
         /\ rwb[i].error.attempt = attempts[i]
    /\ rwb[i].kind = "resolved" =>
         /\ opReturn[i] \in Responses
         /\ rwb[i].response = opReturn[i]
         /\ Len(errors[i]) = attempts[i] - 1
    /\ ( /\ AllAttemptsFailed(i)
         /\ \/ retries[i] <= 0
            \/ TerminalStatus(errors[i][attempts[i]].status) )
         => rwb[i].kind = "rejected"

C5_Witness ==
  \E i \in Inv :
    /\ rwb[i].kind = "rejected"
    /\ attempts[i] >= 2
    /\ errors[i][1].status # errors[i][attempts[i]].status
    /\ rwb[i].error.status = errors[i][attempts[i]].status

(***************************************************************************)
(* C6: for the bodies "", "{invalid json" and "{}", generateFitnessPlan    *)
(* returns the fixed fallback plan, with 7 workout_plan entries and 4      *)
(* diet_plan entries.  The code returns {} for the body "{}".              *)
(***************************************************************************)
C6_BadBodyGivesFallback ==
  \A i \in Inv :
    ( \/ ReturnedContent(i, EmptyText)
      \/ ReturnedContent(i, InvalidText)
      \/ ReturnedContent(i, EmptyObjectText) ) =>
      /\ IsFallbackResult(result[i])
      /\ Len(result[i].value.workout_plan) = 7
      /\ Len(result[i].value.diet_plan) = 4

(***************************************************************************)
(* C7: for a body that is a well-formed JSON object with the plan's keys,  *)
(* extra keys included, generateFitnessPlan returns the parsed object      *)
(* unmodified, through the return of the try block (origin Generated).     *)
(***************************************************************************)
C7_WellFormedReturnedUnmodified ==
  \A i \in Inv : \A text \in Bodies :
    ( /\ ReturnedContent(i, text)
      /\ JSONParse(text).ok
      /\ IsPlanObject(JSONParse(text).value) ) =>
      /\ result[i].kind = "resolved"
      /\ result[i].origin = "Generated"
      /\ result[i].value = JSONParse(text).value
      /\ text = PlanExtraText => result[i].value.keys = PlanKeys \cup {"notes"}

C7_Witness ==
  \E i \in Inv :
    /\ ReturnedContent(i, PlanExtraText)
    /\ result[i].origin = "Generated"
    /\ "notes" \in result[i].value.keys

(***************************************************************************)
(* C8: every plan generateFitnessPlan returns has exactly 7 workout days   *)
(* and a diet plan with at least Breakfast, Lunch, Snack and Dinner,       *)
(* whatever body the upstream returned.  The code returns a parsed body    *)
(* with 3 days and 2 meals as it is.                                       *)
(***************************************************************************)
C8_SevenDaysFourMeals ==
  \A i \in Inv :
    (caller[i] = "plan" /\ pc[i] = "done" /\ result[i].kind = "resolved") =>
      /\ Len(result[i].value.workout_plan) = 7
      /\ Range(Meals) \subseteq Range(result[i].value.diet_plan)

(***************************************************************************)
(* C9: when every attempt of generateFitnessPlan fails at network level    *)
(* (error without status), 3 attempts are made in total, with waits of     *)
(* 1000 ms and 2000 ms, and the result is the bundled fallback plan.       *)
(***************************************************************************)
C9_NetworkFailureThreeAttempts ==
  \A i \in Inv :
    (caller[i] = "plan" /\ AllAttemptsFailed(i)
       /\ AllStatus(errors[i], NoStatus)) =>
      /\ attempts[i] <= 3
      /\ pc[i] = "done" <=> attempts[i] = 3
      /\ attempts[i] = 1 => (waits[i] = << >> /\ timer[i] = 1000)
      /\ attempts[i] = 2 => (waits[i] = << 1000 >> /\ timer[i] = 2000)
      /\ attempts[i] = 3 =>
           /\ waits[i] = << 1000, 2000 >>
           /\ timer[i] = NoTimer
           /\ IsFallbackResult(result[i])

C9_Witness ==
  \E i \in Inv :
    /\ caller[i] = "plan"
    /\ pc[i] = "done"
    /\ attempts[i] = 3
    /\ AllAttemptsFailed(i)
    /\ AllStatus(errors[i], NoStatus)
    /\ result[i].value = FallbackPlan

(***************************************************************************)
(* C10: within one invocation of retryWithBackoff at most one attempt is   *)
(* in flight; attempt k+1 starts only after attempt k has failed and its   *)
(* backoff timer has fired; each wait is strictly longer than the one      *)
(* before it.                                                              *)
(***************************************************************************)
C10_SequentialIncreasingWaits ==
  \A i \in Inv :
    /\ inflight[i] \in {0, 1}
    /\ inflight[i] = 1 <=> pc[i] = "calling"
    /\ pc[i] = "calling" =>
         /\ timer[i] = NoTimer
         /\ Len(errors[i]) = attempts[i] - 1
         /\ Len(waits[i]) = attempts[i] - 1
    /\ pc[i] = "waiting" =>
         /\ timer[i] # NoTimer
         /\ Len(errors[i]) = attempts[i]
         /\ Len(waits[i]) = attempts[i] - 1
    /\ \A k \in 1..(Len(waits[i]) - 1) : waits[i][k + 1] > waits[i][k]
    /\ (timer[i] # NoTimer /\ waits[i] # << >>) =>
         timer[i] > waits[i][Len(waits[i])]

C10_Witness ==
  \E i \in Inv :
    /\ pc[i] = "calling"
    /\ attempts[i] = 3
    /\ Len(waits[i]) = 2
    /\ waits[i][2] > waits[i][1]

(***************************************************************************)
(* C11: once generateFitnessPlan has been invoked with a profile, it       *)
(* eventually completes with a generated or a fallback plan, provided      *)
(* every upstream call eventually settles and every backoff timer          *)
(* eventually fires: it neither retries forever nor stays suspended.       *)
(***************************************************************************)
C11_EventuallyCompletes ==
  \A i \in Inv :
    (caller[i] = "plan" /\ userData[i].defined) ~>
      ( /\ pc[i] = "done"
        /\ result[i].kind = "resolved"
        /\ result[i].origin \in {"Generated", "Fallback"} )

C11_Witness ==
  \E i \in Inv :
    /\ caller[i] = "plan"
    /\ pc[i] = "done"
    /\ attempts[i] = 3
    /\ Len(waits[i]) = 2
    /\ result[i].origin = "Generated"

(***************************************************************************)
(* C12: the fallback plan is fixed.  Every fallback result has the same    *)
(* content whatever the profile and whatever the cause (terminal status,   *)
(* exhausted retries, empty body, parse error), and it lists the weekdays  *)
(* Monday to Sunday once each in that order and the meals Breakfast,       *)
(* Lunch, Snack, Dinner.                                                   *)
(***************************************************************************)
C12_FallbackFixed ==
  \A i \in Inv :
    (caller[i] = "plan" /\ result[i].origin = "Fallback") =>
      /\ result[i].value.workout_plan =
           << "Monday", "Tuesday", "Wednesday", "Thursday", "Friday",
              "Saturday", "Sunday" >>
      /\ result[i].value.diet_plan =
           << "Breakfast", "Lunch", "Snack", "Dinner" >>
      /\ result[i].value.keys = {"workout_plan", "diet_plan", "summary"}
      /\ \A j \in Inv :
           (caller[j] = "plan" /\ result[j].origin = "Fallback") =>
             result[j].value = result[i].value

C12_Witness ==
  \E i, j \in Inv :
    /\ i # j
    /\ caller[i] = "plan" /\ caller[j] = "plan"
    /\ userData[i] # userData[j]
    /\ result[i].origin = "Fallback" /\ result[j].origin = "Fallback"
    /\ rwb[i].kind = "rejected" /\ attempts[i] = 3
    /\ rwb[j].kind = "resolved" /\ rwb[j].response.text = InvalidText

(***************************************************************************)
(* C13: each invocation of the plan pipeline passes through its phases in  *)
(* the order Building, Requesting, zero or more Retrying, Validating, then *)
(* Generated or Fallback.  The prompt is built once, before the first      *)
(* request, and every retry sends it unchanged; the body is validated only *)
(* after the executor has settled; no request is issued after that.        *)
(* Building is part of the invoking step and Validating of the settling    *)
(* step: both run to completion without suspending.                        *)
(***************************************************************************)
Phase(i) ==
  CASE pc[i] = "idle" -> "Idle"
    [] pc[i] = "calling" /\ attempts[i] = 1 -> "Requesting"
    [] pc[i] = "calling" /\ attempts[i] # 1 -> "Retrying"
    [] pc[i] = "waiting" -> "Retrying"
    [] OTHER -> result[i].origin

PhaseOrder ==
  { << "Idle", "Requesting" >>, << "Requesting", "Retrying" >>,
    << "Retrying", "Retrying" >>, << "Requesting", "Generated" >>,
    << "Requesting", "Fallback" >>, << "Retrying", "Generated" >>,
    << "Retrying", "Fallback" >> }

C13_PhaseOrder ==
  /\ [] \A i \in Inv :
          (caller[i] = "plan" /\ userData[i].defined) =>
            /\ prompt[i] = systemPrompt(userData[i])
            /\ Len(requests[i]) = attempts[i]
            /\ attempts[i] >= 1
            /\ \A k \in 1..Len(requests[i]) : requests[i][k] = prompt[i]
            /\ result[i].kind # "none" => rwb[i].kind # "pending"
            /\ rwb[i].kind # "pending" => result[i].kind = "resolved"
  /\ [][ \A i \in Inv :
           (caller'[i] = "plan" /\ userData'[i].defined) =>
             /\ Phase(i)' # Phase(i) =>
                  << Phase(i), Phase(i)' >> \in PhaseOrder
             /\ caller[i] = "plan" => prompt'[i] = prompt[i]
             /\ rwb[i].kind # "pending" =>
                  (requests'[i] = requests[i] /\ attempts'[i] = attempts[i])
       ]_vars

C13_Witness ==
  \E i \in Inv :
    /\ caller[i] = "plan"
    /\ Phase(i) = "Generated"
    /\ Len(requests[i]) = 3
    /\ requests[i][3] = systemPrompt(userData[i])
    /\ requests[i][1] = requests[i][3]

(***************************************************************************)
(* C14: the prompt built for a profile is deterministic and contains every *)
(* profile field exactly once, sleepHours, waterIntake and stressLevel     *)
(* included.  (The field values of each sample profile are pairwise        *)
(* distinct, so a value occurs once exactly when its field does.)  The     *)
(* template has no slot for sleepHours, waterIntake and stressLevel.       *)
(***************************************************************************)
OccurrencesInPrompt(i, field) ==
  Cardinality({ k \in 1..Len(prompt[i]) : prompt[i][k] = userData[i][field] })

C14_PromptHasEveryField ==
  \A i \in Inv :
    (caller[i] = "plan" /\ userData[i].defined) =>
      /\ \A u \in Profiles : u = userData[i] => prompt[i] = systemPrompt(u)
      /\ \A field \in ProfileFields : OccurrencesInPrompt(i, field) = 1

(***************************************************************************)
(* C15: generateFitnessPlan throws an Error to its caller if the API call  *)
(* fails or returns invalid data.  The catch block returns the fallback    *)
(* plan instead of throwing.                                               *)
(***************************************************************************)
\* the invocation is over and the API call failed for good, or returned no
\* choice, an empty content or a content JSON.parse rejects
CallFailedOrInvalid(i) ==
  /\ caller[i] = "plan"
  /\ userData[i].defined
  /\ pc[i] = "done"
  /\ \/ rwb[i].kind = "rejected"
     \/ /\ rwb[i].kind = "resolved"
        /\ \/ rwb[i].response.choices = 0
           \/ rwb[i].response.isnull
           \/ rwb[i].response.text = ""
           \/ ~JSONParse(rwb[i].response.text).ok

pipelineVars == << env, pc, caller, userData, prompt, requests, retries,
                   delay, retries0, delay0, attempts, inflight, timer, waits,
                   errors, opReturn, rwb, result >>

\* onChange / onClick of a rendered input: updateField(field, value)
UpdateField(field, value) ==
  /\ route = "/get-started"
  /\ field \in StepFields(currentStep)
  /\ formData' = updateField(formData, field, value)
  /\ UNCHANGED << currentStep, route, navState >>
  /\ UNCHANGED << pipelineVars, cacheVars, modalVars, themeVars >>

\* the Next button (disabled={!isCurrentStepValid()}): goToNextStep()
GoToNextStep ==
  /\ route = "/get-started"
  /\ isCurrentStepValid(currentStep, formData)
  /\ IF currentStep < 3
     THEN /\ currentStep' = currentStep + 1
          /\ UNCHANGED << route, navState >>
     ELSE /\ route' = "/dashboard"
          /\ navState' = formData
          /\ UNCHANGED currentStep
  /\ UNCHANGED formData
  /\ UNCHANGED << pipelineVars, cacheVars, modalVars, themeVars >>

\* faulty variant: Back decrements without testing the step
GoToPreviousStepUnguarded ==
  /\ route = "/get-started"
  /\ currentStep' = currentStep - 1
  /\ UNCHANGED << formData, route, navState >>
  /\ UNCHANGED << pipelineVars, cacheVars, modalVars, themeVars >>

\* the Back button: goToPreviousStep()
GoToPreviousStep ==
  /\ route = "/get-started"
  /\ currentStep' = IF currentStep > 1 THEN currentStep - 1 ELSE currentStep
  /\ UNCHANGED << formData, route, navState >>
  /\ UNCHANGED << pipelineVars, cacheVars, modalVars, themeVars >>

NextForm ==
  \/ \E field \in ProfileFields :
       \E value \in FieldInputs(field) : UpdateField(field, value)
  \/ GoToNextStep
  \/ GoToPreviousStep

SpecForm == Init /\ [][NextForm]_vars

\* every field of a profile is filled: the name is not blank, the selects
\* are not empty and the numeric fields parse to a number above zero
ProfileComplete(d) ==
  /\ Len(trim(d.name)) > 0
  /\ \A f \in {"gender", "goal", "fitnessLevel", "stressLevel", "location",
               "dietPreference"} : d[f] # << >>
  /\ \A f \in numericFields : parseFloatPositive(d[f])

\* C16: whatever sequence of field edits, Next and Back steps the user
\* makes, the form navigates to the dashboard only with a complete profile:
\* a non-blank name, non-empty gender, goal, fitness level, stress level,
\* location and diet preference, and age, height, weight, sleep hours and
\* water intake each parsing to a number greater than zero.
C16_NavigatesOnlyWhenValid ==
  route = "/dashboard" => navState = formData /\ ProfileComplete(navState)

\* the form was submitted after the user changed the goal on step 2
C16_Witness ==
  route = "/dashboard" /\ currentStep = 3 /\ navState.goal = MuscleGain

\* the invocation has entered retryWithBackoff
Started(i) == pc[i] # "idle" /\ userData[i].defined

\* waits is an initial part of the schedule
IsPrefix(ws, schedule) ==
  Len(ws) <= Len(schedule) /\ \A k \in 1..Len(ws) : ws[k] = schedule[k]

\* C17: two invocations of generateFitnessPlan that overlap in time are not
\* deduplicated: each issues its own upstream requests and keeps its own
\* remaining-attempt counter and delay, so under any interleaving each
\* makes at most 3 attempts and its backoff schedule (1000 ms, 2000 ms) is
\* unaffected by the other.
C17_OverlappingInvocationsIndependent ==
  \A i \in env.invs :
    Started(i) =>
      /\ attempts[i] >= 1
      /\ attempts[i] <= 3
      /\ Len(requests[i]) = attempts[i]
      /\ \A k \in 1..Len(requests[i]) : requests[i][k] = systemPrompt(userData[i])
      /\ IsPrefix(waits[i], << 1000, 2000 >>)
      /\ Len(waits[i]) = attempts[i] - 1
      /\ retries[i] = 2 - Len(waits[i])
      /\ delay[i] = 1000 * Pow2(Len(waits[i]))

\* both invocations, for the same profile, have a request in flight, one of
\* them its third and the other its first
C17_Witness ==
  /\ inflight[1] = 1 /\ inflight[2] = 1
  /\ userData[1] = userData[2]
  /\ attempts[1] = 3 /\ attempts[2] = 1

(***************************************************************************)
(* The plan cache's operations                                             *)
(***************************************************************************)
\* put(plan)
Put(plan) ==
  /\ Len(cachePuts) < MaxPuts
  /\ cacheEntries' = CachePut(cacheEntries, plan)
  /\ cachePuts' = Append(cachePuts, plan)
  /\ cacheGot' = NotRead
  /\ UNCHANGED << pipelineVars, formVars, modalVars, themeVars >>

\* get()
Get ==
  /\ cacheGot' = CacheGet(cacheEntries)
  /\ UNCHANGED << cacheEntries, cachePuts >>
  /\ UNCHANGED << pipelineVars, formVars, modalVars, themeVars >>

NextCache ==
  \/ \E plan \in CachePlans : Put(plan)
  \/ Get

SpecCache == Init /\ [][NextCache]_vars

\* C18: the plan cache holds at most one entry: get() after put(plan)
\* returns a value deep-equal to plan, and after put(planA) then put(planB),
\* get() returns planB only.
C18_CacheRoundTrip ==
  /\ Len(cacheEntries) <= 1
  /\ cacheGot.called =>
       IF cachePuts = << >> THEN ~cacheGot.present
       ELSE cacheGot.present /\ cacheGot.value = cachePuts[Len(cachePuts)]

\* get() ran after put(planA) and put(planB) with two different plans
C18_Witness ==
  /\ Len(cachePuts) = 2
  /\ cachePuts[1] # cachePuts[2]
  /\ cacheGot.called /\ cacheGot.value = cachePuts[2]

\* the attempts ran out, or the last one met a status that is not retried
QuoteCallFailed(i) ==
  \/ Len(errors[i]) = 3
  \/ /\ errors[i] # << >>
     /\ TerminalStatus(errors[i][Len(errors[i])].status)

\* C19: generateMotivationQuote, given a profile object, never rejects: it
\* makes at most 3 upstream attempts (2 retries, first wait 1000 ms), and on
\* a terminal status such as 402 or on exhausted retries it resolves to the
\* fixed string "Consistency is the key to progress. Keep showing up!".
C19_QuoteNeverRejects ==
  \A i \in env.invs :
    caller[i] = "quote" /\ userData[i].defined =>
      /\ attempts[i] <= 3
      /\ IsPrefix(waits[i], << 1000, 2000 >>)
      /\ pc[i] = "done" =>
           /\ result[i].kind = "resolved"
           /\ QuoteCallFailed(i) =>
                result[i].text =
                  "Consistency is the key to progress. Keep showing up!"

\* a quote call that ended on a 402 after one retry
C19_Witness ==
  /\ caller[1] = "quote" /\ userData[1].defined /\ pc[1] = "done"
  /\ Len(errors[1]) = 2 /\ errors[1][2].status = 402
  /\ waits[1] = << 1000 >>
  /\ result[1].text = FallbackQuote

\* C20: in generateFitnessPlan an upstream call that returns successfully is
\* never retried, whatever its body: no returned call ends in the catch
\* block of retryWithBackoff, the call that returns is the last one, and
\* when the first call returns (with an empty, unparseable or wrongly shaped
\* body too) the upstream is called exactly once and no backoff wait occurs.
C20_ReturnedCallNeverRetried ==
  \A i \in env.invs :
    (caller[i] = "plan" /\ userData[i].defined) =>
      /\ \A k \in 1..Len(errors[i]) : errors[i][k].name = "APIError"
      /\ rwb[i].kind = "resolved" =>
           /\ pc[i] = "done"
           /\ opReturn[i] \in Responses
           /\ attempts[i] = Len(errors[i]) + 1
           /\ Len(waits[i]) = Len(errors[i])
           /\ timer[i] = NoTimer /\ inflight[i] = 0
           /\ errors[i] = << >> => (attempts[i] = 1 /\ waits[i] = << >>)

\* the first call returned an unparseable body and the invocation is over
C20_Witness ==
  /\ ReturnedContent(1, InvalidText)
  /\ errors[1] = << >>
  /\ attempts[1] = 1 /\ waits[1] = << >>
  /\ result[1].origin = "Fallback"

\* the response has no choice or a null message content
Malformed(response) == response.choices = 0 \/ response.isnull

\* C21: in generateMotivationQuote an exception raised while reading a
\* returned response inside the retried operation (no choices, or null
\* content) carries no status and is treated as retryable: a malformed
\* response is never returned as the quote, it is re-requested until the 3
\* attempts are used up, and then the fixed quote is returned.
C21_MalformedQuoteResponseRetried ==
  \A i \in env.invs :
    (caller[i] = "quote" /\ userData[i].defined) =>
      /\ \A k \in 1..Len(errors[i]) :
           errors[i][k].name = "TypeError" =>
             /\ errors[i][k].status = NoStatus
             /\ k < 3 => (pc[i] = "waiting" \/ attempts[i] > k)
      /\ rwb[i].kind = "resolved" => ~Malformed(rwb[i].response)
      /\ ( /\ rwb[i].kind = "rejected"
           /\ errors[i][Len(errors[i])].name = "TypeError" ) =>
             /\ attempts[i] = 3
             /\ pc[i] = "done"
             /\ result[i].kind = "resolved"
             /\ result[i].text = FallbackQuote

\* three malformed responses in a row, then the fixed quote
C21_Witness ==
  /\ caller[1] = "quote" /\ pc[1] = "done"
  /\ Len(errors[1]) = 3
  /\ \A k \in 1..3 : errors[1][k].name = "TypeError"
  /\ waits[1] = << 1000, 2000 >>
  /\ result[1].text = FallbackQuote

\* retryWithBackoff of invocation i has returned a value
Succeeded(i) == rwb[i].kind = "resolved"

\* C22: retryWithBackoff stops at the first successful attempt: after an
\* attempt succeeds no further attempt and no further wait occurs, and the
\* result is exactly that attempt's value, also when earlier attempts failed
\* with retryable errors.
C22_StopsAtFirstSuccess ==
  /\ [](\A i \in Inv :
          Succeeded(i) =>
            /\ pc[i] = "done"
            /\ timer[i] = NoTimer /\ inflight[i] = 0
            /\ rwb[i].response = opReturn[i]
            /\ rwb[i].response \in Responses
            /\ attempts[i] = Len(errors[i]) + 1
            /\ Len(waits[i]) = Len(errors[i])
            /\ \A k \in 1..Len(errors[i]) : isRetryable(errors[i][k]))
  /\ [][\A i \in Inv :
          Succeeded(i) =>
            /\ attempts'[i] = attempts[i]
            /\ waits'[i] = waits[i]
            /\ timer'[i] = timer[i]
            /\ rwb'[i] = rwb[i]]_vars

\* the third attempt succeeded after a 500 and a 429
C22_Witness ==
  /\ caller[1] = "direct" /\ Succeeded(1)
  /\ attempts[1] = 3 /\ Len(waits[1]) = 2
  /\ errors[1][1].status = 500 /\ errors[1][2].status = 429
  /\ rwb[1].response.text = PlanText

\* C23: when userData is undefined or null, generateFitnessPlan and
\* generateMotivationQuote reject with a TypeError before any upstream call
\* is made, because the profile is destructured outside the try block; no
\* fallback is substituted in that case.
C23_NoProfileRejects ==
  \A i \in env.invs :
    (caller[i] \in {"plan", "quote"} /\ ~userData[i].defined) =>
      /\ pc[i] = "done"
      /\ result[i].kind = "rejected"
      /\ result[i].error = "TypeError"
      /\ result[i].origin # "Fallback"
      /\ result[i].value # FallbackPlan
      /\ result[i].text # FallbackQuote
      /\ attempts[i] = 0 /\ requests[i] = << >>
      /\ waits[i] = << >> /\ errors[i] = << >>
      /\ rwb[i].kind = "pending"

\* generateMotivationQuote was called without a profile
C23_Witness ==
  /\ caller[1] = "quote" /\ userData[1] = NoUserData
  /\ result[1].kind = "rejected" /\ requests[1] = << >>

Max(a, b) == IF a >= b THEN a ELSE b

\* C24: for every retries value and every sequence of attempt outcomes,
\* retryWithBackoff makes at most max(retries, 0) + 1 attempts; with
\* retries <= 0 it makes exactly one attempt, never waits, and propagates
\* that attempt's error whatever its status.
C24_AttemptsBoundedByBudget ==
  \A i \in env.invs :
    pc[i] # "idle" =>
      /\ attempts[i] <= Max(retries0[i], 0) + 1
      /\ retries0[i] <= 0 =>
           /\ attempts[i] = 1
           /\ waits[i] = << >> /\ timer[i] = NoTimer
           /\ pc[i] \in {"calling", "done"}
           /\ errors[i] # << >> =>
                /\ rwb[i].kind = "rejected"
                /\ rwb[i].error = errors[i][1]

\* a negative budget: the retryable 503 of the only attempt is propagated
C24_Witness ==
  /\ retries0[1] < 0 /\ pc[1] = "done"
  /\ attempts[1] = 1 /\ waits[1] = << >>
  /\ rwb[1].kind = "rejected" /\ rwb[1].error.status = 503

\* C25: the form's current step is always 1, 2 or 3: Next on step 1 or 2
\* increases it by exactly one, Next on step 3 navigates to /dashboard
\* carrying the form data and leaves the step at 3, Back decreases it by
\* exactly one and is a no-op on step 1; neither Next nor Back changes any
\* form field.
C25_StepStaysInRange ==
  /\ [](currentStep \in {1, 2, 3})
  /\ [][ /\ currentStep' \in {currentStep - 1, currentStep, currentStep + 1}
         /\ currentStep' # currentStep =>
              /\ formData' = formData
              /\ route' = route /\ navState' = navState
         /\ currentStep' = currentStep + 1 =>
              isCurrentStepValid(currentStep, formData)
         /\ route' # route =>
              /\ currentStep = 3 /\ currentStep' = 3
              /\ route' = "/dashboard"
              /\ navState' = formData
              /\ formData' = formData
         /\ formData' # formData =>
              (currentStep' = currentStep /\ route' = route) ]_vars

\* the user filled steps 1 and 2 and went back to step 1: the fields of step
\* 2 kept their values
C25_Witness ==
  /\ currentStep = 1 /\ route = "/get-started"
  /\ formData.stressLevel = Low /\ formData.goal = MuscleGain

\* digits with at most one decimal point, or nothing
DigitsWithOneDot(text) ==
  /\ \A k \in 1..Len(text) : text[k] \in Digits \cup {"."}
  /\ Cardinality({ k \in 1..Len(text) : text[k] = "." }) <= 1

\* letters and whitespace only, or nothing
LettersAndSpaces(text) ==
  \A k \in 1..Len(text) : text[k] \in Letters \cup Whitespace

\* the value breaks the rule of the field
BreaksRule(field, value) ==
  \/ field \in numericFields /\ ~DigitsWithOneDot(value)
  \/ field = "name" /\ ~LettersAndSpaces(value)

\* C26: after any sequence of updateField calls, age, height, weight,
\* sleepHours and waterIntake each hold either the empty string or digits
\* with at most one decimal point, and name holds only letters and
\* whitespace; an update with a value that breaks these rules is rejected
\* and leaves the whole form data unchanged.
C26_FieldsKeepTheirFormat ==
  /\ \A f \in numericFields : DigitsWithOneDot(formData[f])
  /\ LettersAndSpaces(formData.name)
  /\ \A field \in ProfileFields :
       \A value \in FieldInputs(field) :
         IF BreaksRule(field, value)
         THEN updateField(formData, field, value) = formData
         ELSE updateField(formData, field, value) =
                [formData EXCEPT ![field] = value]

\* a lone decimal point and a blank name were accepted
C26_Witness ==
  /\ formData.age = << "." >> /\ formData.name = << " " >>
  /\ formData.weight = << "7" >>

(***************************************************************************)
(* ImageModal: renders with new props, DOM events, mount and unmount.      *)
(* A render and the effects it schedules are one step.                     *)
(***************************************************************************)
\* the component renders with the props new and its effects run: each effect
\* whose dependencies changed runs its cleanup and then its body
Commit(new) ==
  /\ modalProps' = new
  /\ modal' = IF imageDepsChanged(modalProps, new)
              THEN imageEffect(modal, new) ELSE modal
  /\ listeners' = IF escapeDepsChanged(modalProps, new)
                  THEN escapeEffect(escapeCleanup(listeners, modalProps), new)
                  ELSE listeners
  /\ bodyOverflow' = IF modalProps.isOpen # new.isOpen
                     THEN scrollEffect(scrollCleanup(bodyOverflow, modalProps),
                                       new)
                     ELSE bodyOverflow

\* the parent mounts the modal: initial state, then every effect runs
ModalMount(p) ==
  /\ ~modalMounted
  /\ modalMounted' = TRUE
  /\ modalProps' = p
  /\ modal' = imageEffect(InitialModalState, p)
  /\ listeners' = escapeEffect(listeners, p)
  /\ bodyOverflow' = scrollEffect(bodyOverflow, p)
  /\ lastEvent' = Event(IF p.isOpen THEN "open" ELSE "mount")
  /\ UNCHANGED << pipelineVars, formVars, cacheVars, themeVars >>

\* the parent opens the modal for an item
ModalOpen(itemName, type, gender) ==
  /\ modalMounted /\ ~modalProps.isOpen
  /\ Commit([modalProps EXCEPT !.isOpen = TRUE, !.itemName = itemName,
                               !.type = type, !.userGender = gender])
  /\ lastEvent' = Event("open")
  /\ UNCHANGED modalMounted
  /\ UNCHANGED << pipelineVars, formVars, cacheVars, themeVars >>

\* the item changes while the modal is open
ModalChangeItem(itemName, type, gender) ==
  LET new == [modalProps EXCEPT !.itemName = itemName, !.type = type,
                                !.userGender = gender]
  IN /\ modalMounted /\ modalProps.isOpen
     /\ imageDepsChanged(modalProps, new)
     /\ Commit(new)
     /\ lastEvent' = Event("change")
     /\ UNCHANGED modalMounted
     /\ UNCHANGED << pipelineVars, formVars, cacheVars, themeVars >>

\* the parent renders again and passes a new onClose function
ParentRerenders(onClose) ==
  /\ modalMounted /\ onClose # modalProps.onClose
  /\ Commit([modalProps EXCEPT !.onClose = onClose])
  /\ lastEvent' = Event("rerender")
  /\ UNCHANGED modalMounted
  /\ UNCHANGED << pipelineVars, formVars, cacheVars, themeVars >>

\* the close button or the backdrop is clicked: onClose() closes the modal
ModalClose ==
  /\ modalMounted /\ modalProps.isOpen
  /\ Commit([modalProps EXCEPT !.isOpen = FALSE])
  /\ lastEvent' = Event("close")
  /\ UNCHANGED modalMounted
  /\ UNCHANGED << pipelineVars, formVars, cacheVars, themeVars >>

\* a keydown event on document: every registered handleEscape runs and
\* calls its onClose if the key is Escape
KeyDown(key) ==
  LET called == key = "Escape" /\ listeners # << >>
  IN /\ lastEvent' = [kind |-> "keydown", key |-> key,
                      calledOnClose |-> called,
                      wasOpen |-> modalMounted /\ modalProps.isOpen]
     /\ IF called /\ modalMounted
        THEN Commit([modalProps EXCEPT !.isOpen = FALSE])
        ELSE UNCHANGED << modalProps, modal, listeners, bodyOverflow >>
     /\ UNCHANGED modalMounted
     /\ UNCHANGED << pipelineVars, formVars, cacheVars, themeVars >>

\* the img element fires load: handleImageLoad()
ImageLoad ==
  /\ modalMounted /\ modalProps.isOpen /\ modal.imageUrl # NoUrl
  /\ modal' = handleImageLoad(modal)
  /\ lastEvent' = Event("load")
  /\ UNCHANGED << modalMounted, modalProps, listeners, bodyOverflow >>
  /\ UNCHANGED << pipelineVars, formVars, cacheVars, themeVars >>

\* the img element fires error: handleImageError()
ImageError ==
  /\ modalMounted /\ modalProps.isOpen
  /\ modal' = handleImageError(modal)
  /\ lastEvent' = Event("error")
  /\ UNCHANGED << modalMounted, modalProps, listeners, bodyOverflow >>
  /\ UNCHANGED << pipelineVars, formVars, cacheVars, themeVars >>

\* the parent unmounts the modal: the cleanups of its effects run and its
\* state is discarded
ModalUnmount ==
  /\ modalMounted
  /\ modalMounted' = FALSE
  /\ listeners' = escapeCleanup(listeners, modalProps)
  /\ bodyOverflow' = scrollCleanup(bodyOverflow, modalProps)
  /\ modalProps' = ClosedProps
  /\ modal' = InitialModalState
  /\ lastEvent' = Event("unmount")
  /\ UNCHANGED << pipelineVars, formVars, cacheVars, themeVars >>

NextModal ==
  \/ \E p \in ModalPropsSet : ModalMount(p)
  \/ \E itemName \in ModalItems, type \in ModalTypes, gender \in ModalGenders :
       ModalOpen(itemName, type, gender)
  \/ \E itemName \in ModalItems, type \in ModalTypes, gender \in ModalGenders :
       ModalChangeItem(itemName, type, gender)
  \/ \E onClose \in OnCloses : ParentRerenders(onClose)
  \/ ModalClose
  \/ \E key \in Keys : KeyDown(key)
  \/ ImageLoad
  \/ ImageError
  \/ ModalUnmount

SpecModal == Init /\ [][NextModal]_vars

\* C27: each time the image modal opens with an item, or the item changes
\* while it is open, it enters the state loading = true, error = false with
\* the URL generated for that item; an image load event gives loading =
\* false, an image error event gives loading = false and error = true; the
\* spinner and the error message are never shown together, and the image is
\* visible only when neither loading nor error holds.
C27_ModalLoadingStates ==
  modalMounted =>
    /\ (lastEvent.kind \in {"open", "change"} /\ modalProps.itemName # NoItem)
         => modal = [isLoading |-> TRUE, hasError |-> FALSE,
                     imageUrl |-> generateImageUrl(modalProps.itemName,
                                    modalProps.type, modalProps.userGender)]
    /\ lastEvent.kind = "load" => ~modal.isLoading
    /\ lastEvent.kind = "error" => (~modal.isLoading /\ modal.hasError)
    /\ ~(spinnerShown(modal) /\ errorShown(modal))
    /\ imageVisible(modal) => (~modal.isLoading /\ ~modal.hasError)
    /\ (modalProps.isOpen /\ modalProps.itemName # NoItem)
         => modal.imageUrl = generateImageUrl(modalProps.itemName,
                               modalProps.type, modalProps.userGender)

\* the item changed while the modal was open: it is loading the new image
C27_Witness ==
  /\ modalMounted /\ lastEvent.kind = "change"
  /\ modalProps.itemName = "Oatmeal" /\ modalProps.type = "meal"
  /\ modal.isLoading /\ ~modal.hasError
  /\ modal.imageUrl = << "meal", "Oatmeal" >>

\* C28: after any sequence of modal open and close events, the page body's
\* scroll is locked (overflow hidden) and the Escape keydown listener is
\* registered exactly while the modal is open: both are released when it
\* closes or unmounts, and an Escape key press calls onClose only while the
\* modal is open.
C28_LockAndListenerWhileOpen ==
  /\ bodyOverflow = "hidden" <=> (modalMounted /\ modalProps.isOpen)
  /\ bodyOverflow \in {"", "hidden"}
  /\ listeners = IF modalMounted /\ modalProps.isOpen
                 THEN << modalProps.onClose >> ELSE << >>
  /\ lastEvent.kind = "keydown" =>
       /\ lastEvent.calledOnClose =>
            (lastEvent.wasOpen /\ lastEvent.key = "Escape")
       /\ (lastEvent.wasOpen /\ lastEvent.key = "Escape") =>
            (lastEvent.calledOnClose /\ ~modalProps.isOpen)

\* Escape closed the open modal: scroll and listener are released
C28_Witness ==
  /\ lastEvent.kind = "keydown" /\ lastEvent.calledOnClose
  /\ modalMounted /\ ~modalProps.isOpen
  /\ bodyOverflow = "" /\ listeners = << >>

(***************************************************************************)
(* Navbar: mount, theme buttons, page reload.  A state change and the      *)
(* effect it schedules are one step.                                       *)
(***************************************************************************)
\* the effect on [theme]: set the class of the root, save the theme
ApplyTheme(t) ==
  /\ rootDark' = rootDarkAfter(t)
  /\ storedTheme' = t

\* the page loads and Navbar mounts: useState(savedTheme), then the effect
NavbarMount ==
  /\ ~navMounted
  /\ navMounted' = TRUE
  /\ theme' = savedTheme(storedTheme)
  /\ ApplyTheme(savedTheme(storedTheme))
  /\ UNCHANGED themeLog
  /\ UNCHANGED << pipelineVars, formVars, cacheVars, modalVars >>

\* a theme button is clicked: setTheme('light') or setTheme('dark')
SetTheme(t) ==
  /\ navMounted
  /\ Len(themeLog) < MaxThemeChanges
  /\ theme' = t
  /\ IF t # theme THEN ApplyTheme(t) ELSE UNCHANGED << rootDark, storedTheme >>
  /\ themeLog' = Append(themeLog, t)
  /\ UNCHANGED navMounted
  /\ UNCHANGED << pipelineVars, formVars, cacheVars, modalVars >>

\* the page is reloaded: the component state is gone, the new document's
\* root may or may not carry the class, localStorage is kept
PageReload(dark) ==
  /\ navMounted
  /\ navMounted' = FALSE
  /\ theme' = "dark"
  /\ rootDark' = dark
  /\ UNCHANGED << storedTheme, themeLog >>
  /\ UNCHANGED << pipelineVars, formVars, cacheVars, modalVars >>

\* the site data is cleared between two visits
StorageCleared ==
  /\ ~navMounted
  /\ storedTheme # NoStoredTheme
  /\ storedTheme' = NoStoredTheme
  /\ themeLog' = << >>
  /\ UNCHANGED << navMounted, theme, rootDark >>
  /\ UNCHANGED << pipelineVars, formVars, cacheVars, modalVars >>

NextTheme ==
  \/ NavbarMount
  \/ \E t \in Themes : SetTheme(t)
  \/ \E dark \in BOOLEAN : PageReload(dark)
  \/ StorageCleared

SpecTheme == Init /\ [][NextTheme]_vars

\* C29: after every theme change has been applied, the document root
\* carries the 'dark' class if and only if the theme is 'dark', and the
\* stored 'theme' value equals the current theme; a fresh mount starts from
\* the stored theme, or from 'dark' when nothing is stored, so the last
\* selected theme survives a page reload.
C29_ThemeAppliedAndStored ==
  /\ [](navMounted =>
          /\ rootDark <=> theme = "dark"
          /\ storedTheme = theme
          /\ themeLog # << >> => theme = themeLog[Len(themeLog)])
  /\ [][(~navMounted /\ navMounted') =>
          theme' = IF storedTheme = NoStoredTheme THEN "dark"
                   ELSE storedTheme]_vars

\* light was selected, the page was reloaded onto a root carrying 'dark',
\* and the Navbar mounted again with the light theme
C29_Witness ==
  /\ navMounted /\ theme = "light" /\ ~rootDark
  /\ themeLog = << "light" >>
  /\ storedTheme = "light"

====
